---- MODULE Spec2Model ----
(***************************************************************************)
(* Model of backend/main.py: the POST /extract handler, the text           *)
(* extractor dispatch, the fence stripping and JSON parsing of the model   *)
(* reply, and the normalizer (postprocess).                                *)
(*                                                                         *)
(* Python strings are sequences of one-character strings.  JSON values are *)
(* tagged records, so that values of different Python types can be         *)
(* compared: None, bool, int, str, list, dict.                             *)
(***************************************************************************)
EXTENDS Integers, Sequences, FiniteSets, TLC

VARIABLES
    \* --- one POST /extract request ---
    pc,          \* position in extract_patient_data
    filename,    \* file.filename (None or str)
    ctype,       \* file.content_type (None or str)
    raw,         \* bytes returned by file.read()
    readerCalls, \* format readers applied so far, in call order
    text,        \* extracted, stripped text
    apiCalls,    \* number of client.chat.completions.create invocations
    apiFailed,   \* the invocation raised
    content,     \* message.content of the reply (None or str)
    raisedIn,    \* stage in which an exception was raised ("none" if none)
    raisedMsg,   \* str(e) of that exception
    status,      \* HTTP status of the response (0 while running)
    detail,      \* detail of an error response
    body,        \* body of a 200 response
    \* --- postprocess applied to a parsed mapping ---
    data,        \* argument of postprocess
    result,      \* postprocess(data)
    again,       \* postprocess(result)
    phase,       \* "init", "once", "twice"
    \* --- _null_if_placeholder applied to a name ---
    nameArg, nameRes, nameDone,
    \* --- response parser applied to a reply ---
    jtext,       \* a JSON text J
    wrap,        \* how J is wrapped in the reply
    reply,       \* the reply text
    parsed,      \* value the response parser produces
    parseDone

reqVars   == <<pc, filename, ctype, raw, readerCalls, text, apiCalls, apiFailed,
               content, raisedIn, raisedMsg, status, detail, body>>
postVars  == <<data, result, again, phase>>
nameVars  == <<nameArg, nameRes, nameDone>>
parseVars == <<jtext, wrap, reply, parsed, parseDone>>
vars      == <<reqVars, postVars, nameVars, parseVars>>

(***************************************************************************)
(* Bounds                                                                  *)
(***************************************************************************)
MaxNameLen == 7      \* longest name string given to _null_if_placeholder
MaxEntries == 2      \* longest medications_taken list
MaxJsonLen == 5      \* longest JSON text J given to the response parser
MaxRaw     == 2      \* longest upload, in bytes

(***************************************************************************)
(* Python values                                                           *)
(***************************************************************************)
None      == [t |-> "null"]
Bool(b)   == [t |-> "bool", b |-> b]
Num(n)    == [t |-> "num", n |-> n]
Str(s)    == [t |-> "str", s |-> s]
List(l)   == [t |-> "list", l |-> l]
Dict(o)   == [t |-> "obj", o |-> o]
Raise(e)  == [t |-> "raise", e |-> e]

IsStr(v)    == v.t = "str"
IsDict(v)   == v.t = "obj"
IsRaise(v)  == v.t = "raise"

\* Python truth value of v (used by: not s, x or y, if name)
Truthy(v) ==
    CASE v.t = "null" -> FALSE
      [] v.t = "bool" -> v.b
      [] v.t = "num"  -> v.n # 0
      [] v.t = "str"  -> v.s # <<>>
      [] v.t = "list" -> v.l # <<>>
      [] v.t = "obj"  -> DOMAIN v.o # {}

\* x or y
Or(x, y) == IF Truthy(x) THEN x ELSE y

\* dict.get(k): the value, None when the key is missing
Get(d, k) == IF k \in DOMAIN d.o THEN d.o[k] ELSE None

(***************************************************************************)
(* str methods                                                             *)
(***************************************************************************)
Uppers == <<"A","B","C","D","E","F","G","H","I","J","K","L","M",
            "N","O","P","Q","R","S","T","U","V","W","X","Y","Z">>
Lowers == <<"a","b","c","d","e","f","g","h","i","j","k","l","m",
            "n","o","p","q","r","s","t","u","v","w","x","y","z">>

SpaceChars   == {" ", "\t", "\n", "\r"}
IsSpace(c)   == c \in SpaceChars
IsUpperAZ(c) == \E i \in 1..26 : Uppers[i] = c

UpperChar(c) == IF \E i \in 1..26 : Lowers[i] = c
                THEN Uppers[CHOOSE i \in 1..26 : Lowers[i] = c] ELSE c
LowerChar(c) == IF \E i \in 1..26 : Uppers[i] = c
                THEN Lowers[CHOOSE i \in 1..26 : Uppers[i] = c] ELSE c

Upper(s) == [i \in 1..Len(s) |-> UpperChar(s[i])]
Lower(s) == [i \in 1..Len(s) |-> LowerChar(s[i])]

\* s[n:] with n counted from 0
DropFirst(s, n) == IF n >= Len(s) THEN <<>> ELSE SubSeq(s, n + 1, Len(s))
\* s[:n]
Take(s, n) == IF n >= Len(s) THEN s ELSE SubSeq(s, 1, n)

\* the backtick character (a string literal cannot hold one)
Backtick == "<backtick>"

\* s.lstrip(chars), s.rstrip(chars)
RECURSIVE LStrip(_, _)
LStrip(s, chars) ==
    IF s # <<>> /\ Head(s) \in chars THEN LStrip(Tail(s), chars) ELSE s
RECURSIVE RStrip(_, _)
RStrip(s, chars) ==
    IF s # <<>> /\ s[Len(s)] \in chars THEN RStrip(SubSeq(s, 1, Len(s) - 1), chars) ELSE s

\* s.strip()
Strip(s) == RStrip(LStrip(s, SpaceChars), SpaceChars)
\* s.strip(backtick)
StripBackticks(s) == RStrip(LStrip(s, {Backtick}), {Backtick})

StartsWith(s, p) == Len(p) <= Len(s) /\ SubSeq(s, 1, Len(p)) = p
EndsWith(s, p)   == Len(p) <= Len(s) /\ SubSeq(s, Len(s) - Len(p) + 1, Len(s)) = p
\* p in s
Contains(s, p)   == \E i \in 0..(Len(s) - Len(p)) : SubSeq(s, i + 1, i + Len(p)) = p

(***************************************************************************)
(* _null_if_placeholder and _title                                         *)
(***************************************************************************)
\* leading whitespace run of the pattern, at position i of s: the position after it
RECURSIVE SkipSpace(_, _)
SkipSpace(s, i) == IF i <= Len(s) /\ IsSpace(s[i]) THEN SkipSpace(s, i + 1) ELSE i

\* run of capitals A to Z at position i: the position after it (i if none)
RECURSIVE SkipUpper(_, _)
SkipUpper(s, i) == IF i <= Len(s) /\ IsUpperAZ(s[i]) THEN SkipUpper(s, i + 1) ELSE i

\* one bracketed token and the whitespace after it, at position i:
\* the position after it, 0 when it does not match
MatchToken(s, i) ==
    IF i <= Len(s) /\ s[i] = "["
    THEN LET j == SkipUpper(s, i + 1) IN
         IF j > i + 1 /\ j <= Len(s) /\ s[j] = "]" THEN SkipSpace(s, j + 1) ELSE 0
    ELSE 0

\* one or more bracketed tokens from position i up to the end of s
RECURSIVE MatchTokens(_, _)
MatchTokens(s, i) ==
    LET j == MatchToken(s, i) IN
    IF j = 0 THEN FALSE
    ELSE IF j > Len(s) THEN TRUE
    ELSE MatchTokens(s, j)

\* re.fullmatch of the placeholder pattern on s
PlaceholderFullMatch(s) == MatchTokens(s, SkipSpace(s, 1))

\* _null_if_placeholder returning the name without stripping it
null_if_placeholder_NoTrim(s) ==
    IF ~Truthy(s) THEN None
    ELSE IF ~IsStr(s) THEN Raise("AttributeError")
    ELSE IF PlaceholderFullMatch(Strip(s.s)) THEN None
    ELSE s

\* _null_if_placeholder(s), s being whatever data.get("name") returned
null_if_placeholder(s) ==
    IF ~Truthy(s) THEN None
    ELSE IF ~IsStr(s) THEN Raise("AttributeError")
    ELSE IF PlaceholderFullMatch(Strip(s.s)) THEN None
    ELSE Str(Strip(s.s))

\* _title keeping the first character after its uppercase form
title_Dup(s) == IF s # <<>> THEN Upper(Take(s, 1)) \o s ELSE s

\* _title(s)
title(s) == IF s # <<>> THEN Upper(Take(s, 1)) \o DropFirst(s, 1) ELSE s

(***************************************************************************)
(* postprocess                                                             *)
(***************************************************************************)
\* the keys postprocess reads and writes
k_name == <<"n","a","m","e">>
k_age == <<"a","g","e">>
k_mental_illnesses == <<"m","e","n","t","a","l","_","i","l","l","n","e","s","s","e","s">>
k_medications_taken == <<"m","e","d","i","c","a","t","i","o","n","s","_","t","a","k","e","n">>
k_past_history == <<"p","a","s","t","_","h","i","s","t","o","r","y">>
k_diagnoses == <<"d","i","a","g","n","o","s","e","s">>
k_dose == <<"d","o","s","e">>
k_route == <<"r","o","u","t","e">>
k_frequency == <<"f","r","e","q","u","e","n","c","y">>
k_duration == <<"d","u","r","a","t","i","o","n">>
k_reason == <<"r","e","a","s","o","n">>
k_label == <<"l","a","b","e","l">>
k_code == <<"c","o","d","e">>
k_priority == <<"p","r","i","o","r","i","t","y">>

\* the elements of S in some order
SetToSeq(S) ==
    CHOOSE q \in [1..Cardinality(S) -> S] : \A i, j \in 1..Cardinality(S) : q[i] = q[j] => i = j
\* the list of elements a for loop over v visits, or the TypeError it raises
Iter(v) ==
    CASE v.t = "list" -> v
      [] v.t = "str"  -> List([i \in 1..Len(v.s) |-> Str(<<v.s[i]>>)])
      [] v.t = "obj"  -> LET q == SetToSeq(DOMAIN v.o) IN List([i \in 1..Len(q) |-> Str(q[i])])
      [] OTHER        -> Raise("TypeError")

\* str(x).strip() is non-empty: str() of anything but a str is never blank
StrOfNotBlank(x) == IF IsStr(x) THEN Strip(x.s) # <<>> ELSE TRUE

\* [_title(x.strip()) for x in mi if str(x).strip()]
RECURSIVE TidyIllnesses(_)
TidyIllnesses(mi) ==
    IF mi = <<>> THEN List(<<>>)
    ELSE LET x == Head(mi) IN
         IF ~StrOfNotBlank(x) THEN TidyIllnesses(Tail(mi))
         ELSE IF ~IsStr(x) THEN Raise("AttributeError")
         ELSE LET rest == TidyIllnesses(Tail(mi)) IN
              IF IsRaise(rest) THEN rest
              ELSE List(<<Str(title(Strip(x.s)))>> \o rest.l)

MedKeys == {k_name, k_dose, k_route, k_frequency, k_duration, k_reason}

\* the cleaned entry with the name left in its case
CleanedMed_NoLower(m, name) ==
    Dict([k \in MedKeys |-> IF k = k_name THEN Str(name) ELSE Or(Get(m, k), None)])

\* the dict appended to cleaned for the entry m whose stripped name is name
CleanedMed(m, name) ==
    Dict([k \in MedKeys |-> IF k = k_name THEN Str(Lower(name)) ELSE Or(Get(m, k), None)])

\* the loop over meds
RECURSIVE CleanMeds(_)
CleanMeds(meds) ==
    IF meds = <<>> THEN List(<<>>)
    ELSE LET m == Head(meds) IN
         IF ~IsDict(m) THEN CleanMeds(Tail(meds))
         ELSE LET n == Or(Get(m, k_name), Str(<<>>)) IN
              IF ~IsStr(n) THEN Raise("AttributeError")
              ELSE IF Strip(n.s) = <<>> THEN CleanMeds(Tail(meds))
              ELSE LET rest == CleanMeds(Tail(meds)) IN
                   IF IsRaise(rest) THEN rest
                   ELSE List(<<CleanedMed(m, Strip(n.s))>> \o rest.l)

\* re.sub of every whitespace run in s by one space
RECURSIVE CollapseSpace(_)
CollapseSpace(s) ==
    IF s = <<>> THEN <<>>
    ELSE IF IsSpace(Head(s)) THEN <<" ">> \o CollapseSpace(LStrip(s, SpaceChars))
    ELSE <<Head(s)>> \o CollapseSpace(Tail(s))

\* the past_history value stored, or the exception raised
TidyHistory(v) ==
    LET ph == Or(v, Str(<<>>)) IN
    IF ~IsStr(ph) THEN Raise("AttributeError")
    ELSE Str(CollapseSpace(Strip(ph.s)))

DxKeys == {k_label, k_code, k_priority}

\* the dict appended to out for the entry d whose stripped label is label
CleanedDx(d, label) ==
    Dict([k \in DxKeys |-> IF k = k_label THEN Str(title(label)) ELSE Or(Get(d, k), None)])

\* the loop over dx
RECURSIVE CleanDx(_)
CleanDx(dx) ==
    IF dx = <<>> THEN List(<<>>)
    ELSE LET d == Head(dx) IN
         IF ~IsDict(d) THEN CleanDx(Tail(dx))
         ELSE LET l == Or(Get(d, k_label), Str(<<>>)) IN
              IF ~IsStr(l) THEN Raise("AttributeError")
              ELSE IF Strip(l.s) = <<>> THEN CleanDx(Tail(dx))
              ELSE LET rest == CleanDx(Tail(dx)) IN
                   IF IsRaise(rest) THEN rest
                   ELSE List(<<CleanedDx(d, Strip(l.s))>> \o rest.l)

\* the keys of the dict postprocess returns: it assigns five keys of the dict
\* it was given and leaves every other key of that dict alone
AssignedKeys == {k_name, k_mental_illnesses, k_medications_taken, k_past_history, k_diagnoses}

\* postprocess(data): the dict returned, or the exception raised
postprocess(d) ==
    IF ~IsDict(d) THEN Raise("AttributeError")
    ELSE
    LET nm   == null_if_placeholder(Get(d, k_name))
        miIt == Iter(Or(Get(d, k_mental_illnesses), List(<<>>)))
        mi   == IF IsRaise(miIt) THEN miIt ELSE TidyIllnesses(miIt.l)
        mdIt == Iter(Or(Get(d, k_medications_taken), List(<<>>)))
        md   == IF IsRaise(mdIt) THEN mdIt ELSE CleanMeds(mdIt.l)
        ph   == TidyHistory(Get(d, k_past_history))
        dxIt == Iter(Or(Get(d, k_diagnoses), List(<<>>)))
        dx   == IF IsRaise(dxIt) THEN dxIt ELSE CleanDx(dxIt.l)
    IN  IF IsRaise(nm) THEN nm
        ELSE IF IsRaise(mi) THEN mi
        ELSE IF IsRaise(md) THEN md
        ELSE IF IsRaise(ph) THEN ph
        ELSE IF IsRaise(dx) THEN dx
        ELSE Dict([k \in DOMAIN d.o \cup AssignedKeys |->
                    CASE k = k_name              -> nm
                      [] k = k_mental_illnesses  -> mi
                      [] k = k_medications_taken -> md
                      [] k = k_past_history      -> ph
                      [] k = k_diagnoses         -> dx
                      [] OTHER                   -> d.o[k]])

(***************************************************************************)
(* json.loads, for JSON texts made of whitespace, null, true, false,       *)
(* integers, strings without escapes, arrays and objects                   *)
(***************************************************************************)
Digits == <<"0","1","2","3","4","5","6","7","8","9">>
IsDigit(c) == \E i \in 1..10 : Digits[i] = c
DigitVal(c) == (CHOOSE i \in 1..10 : Digits[i] = c) - 1

\* the character at position i, or a marker past the end
At(s, i) == IF i >= 1 /\ i <= Len(s) THEN s[i] ELSE "<eof>"
\* s[i:].startswith(p), i counted from 1
StartsWithAt(s, i, p) == i + Len(p) - 1 <= Len(s) /\ SubSeq(s, i, i + Len(p) - 1) = p

Fail     == [ok |-> FALSE]
Ok(v, n) == [ok |-> TRUE, v |-> v, next |-> n]

\* position of the quote closing the string whose content starts at i
\* (0 when the text ends or a control character comes first)
RECURSIVE ClosingQuote(_, _)
ClosingQuote(s, i) ==
    IF i > Len(s) THEN 0
    ELSE IF s[i] = "\"" THEN i
    ELSE IF s[i] \in {"\t", "\n", "\r"} THEN 0
    ELSE ClosingQuote(s, i + 1)

ParseString(s, i) ==
    LET j == ClosingQuote(s, i + 1) IN
    IF j = 0 THEN Fail ELSE Ok(Str(SubSeq(s, i + 1, j - 1)), j + 1)

RECURSIVE SkipDigits(_, _)
SkipDigits(s, i) == IF i <= Len(s) /\ IsDigit(s[i]) THEN SkipDigits(s, i + 1) ELSE i

RECURSIVE IntOf(_)
IntOf(ds) == IF ds = <<>> THEN 0 ELSE 10 * IntOf(SubSeq(ds, 1, Len(ds) - 1)) + DigitVal(ds[Len(ds)])

\* an integer: an optional minus, then 0 or a run of digits not starting with 0
ParseNumber(s, i) ==
    LET d0 == IF At(s, i) = "-" THEN i + 1 ELSE i
        e  == IF At(s, d0) = "0" THEN d0 + 1 ELSE SkipDigits(s, d0)
    IN  IF e = d0 THEN Fail
        ELSE Ok(Num((IF d0 > i THEN -1 ELSE 1) * IntOf(SubSeq(s, d0, e - 1))), e)

RECURSIVE ParseValue(_, _)
RECURSIVE ParseItems(_, _, _)
RECURSIVE ParseMembers(_, _, _)

\* the items of an array, a value being expected at position i
ParseItems(s, i, acc) ==
    LET r == ParseValue(s, i) IN
    IF ~r.ok THEN Fail
    ELSE LET j == SkipSpace(s, r.next) IN
         IF At(s, j) = "," THEN ParseItems(s, SkipSpace(s, j + 1), Append(acc, r.v))
         ELSE IF At(s, j) = "]" THEN Ok(List(Append(acc, r.v)), j + 1)
         ELSE Fail

\* the members of an object, a key being expected at position i;
\* a repeated key keeps its last value
ParseMembers(s, i, acc) ==
    IF At(s, i) # "\"" THEN Fail
    ELSE LET k == ParseString(s, i) IN
         IF ~k.ok THEN Fail
         ELSE LET c == SkipSpace(s, k.next) IN
              IF At(s, c) # ":" THEN Fail
              ELSE LET r == ParseValue(s, SkipSpace(s, c + 1)) IN
                   IF ~r.ok THEN Fail
                   ELSE LET j   == SkipSpace(s, r.next)
                            new == [x \in DOMAIN acc \cup {k.v.s} |->
                                      IF x = k.v.s THEN r.v ELSE acc[x]]
                        IN  IF At(s, j) = "," THEN ParseMembers(s, SkipSpace(s, j + 1), new)
                            ELSE IF At(s, j) = "}" THEN Ok(Dict(new), j + 1)
                            ELSE Fail

ParseValue(s, i) ==
    LET c == At(s, i) IN
    CASE c = "\"" -> ParseString(s, i)
      [] c = "["  -> LET j == SkipSpace(s, i + 1) IN
                     IF At(s, j) = "]" THEN Ok(List(<<>>), j + 1) ELSE ParseItems(s, j, <<>>)
      [] c = "{"  -> LET j == SkipSpace(s, i + 1) IN
                     IF At(s, j) = "}" THEN Ok(Dict(<<>>), j + 1) ELSE ParseMembers(s, j, <<>>)
      [] c = "-" \/ IsDigit(c) -> ParseNumber(s, i)
      [] StartsWithAt(s, i, <<"n","u","l","l">>)     -> Ok(None, i + 4)
      [] StartsWithAt(s, i, <<"t","r","u","e">>)     -> Ok(Bool(TRUE), i + 4)
      [] StartsWithAt(s, i, <<"f","a","l","s","e">>) -> Ok(Bool(FALSE), i + 5)
      [] OTHER -> Fail

\* json.loads(s): the value, or the JSONDecodeError raised (also for text
\* after the value)
JsonLoads(s) ==
    LET r == ParseValue(s, SkipSpace(s, 1)) IN
    IF ~r.ok THEN Raise("JSONDecodeError")
    ELSE IF SkipSpace(s, r.next) <= Len(s) THEN Raise("JSONDecodeError")
    ELSE r.v

(***************************************************************************)
(* Response parser: fence stripping, then json.loads                       *)
(***************************************************************************)
Fence   == <<Backtick, Backtick, Backtick>>
JsonTag == <<"j","s","o","n">>
\* number of characters cut off after the fence when the tag is there
TagLen  == 4

\* the fence stripping without the removal of the language tag
StripFences_KeepTag(c) ==
    IF StartsWith(c, Fence) THEN Strip(StripBackticks(c)) ELSE c

\* content after the fence stripping, content being already stripped
StripFences(c) ==
    IF StartsWith(c, Fence)
    THEN LET c1 == Strip(StripBackticks(c)) IN
         IF StartsWith(Lower(c1), JsonTag) THEN Strip(DropFirst(c1, TagLen)) ELSE c1
    ELSE c

\* the value json.loads gives for the reply text (or the raised error)
ResponseParser(replyText) == JsonLoads(StripFences(Strip(replyText)))

(***************************************************************************)
(* Idle values of the variables a specification does not use               *)
(***************************************************************************)
AllSeqs(A, n) == UNION {[1..k -> A] : k \in 0..n}
\* marks a key that the dict does not have
Missing == [t |-> "missing"]

ReqIdle ==
    /\ pc = "idle" /\ filename = None /\ ctype = None /\ raw = <<>>
    /\ readerCalls = <<>> /\ text = <<>> /\ apiCalls = 0 /\ apiFailed = FALSE
    /\ content = None /\ raisedIn = "none" /\ raisedMsg = "" /\ status = 0
    /\ detail = None /\ body = None
PostIdle  == data = None /\ result = None /\ again = None /\ phase = "idle"
NameIdle  == nameArg = None /\ nameRes = None /\ nameDone = TRUE
ParseIdle == jtext = <<>> /\ wrap = "idle" /\ reply = <<>> /\ parsed = None /\ parseDone = TRUE

(***************************************************************************)
(* SpecName: the name rule of postprocess on one name value                *)
(***************************************************************************)
NameAlphabet == {" ", "[", "]", "A", "a"}

\* the parsed reply whose name field is v
DictWithName(v) == IF v = Missing THEN Dict(<<>>) ELSE Dict([k \in {k_name} |-> v])

InitName ==
    /\ \/ nameArg = Missing
       \/ nameArg = None
       \/ \E s \in AllSeqs(NameAlphabet, MaxNameLen) : nameArg = Str(s)
    /\ nameRes = None /\ nameDone = FALSE
    /\ ReqIdle /\ PostIdle /\ ParseIdle

\* data["name"] = _null_if_placeholder(data.get("name"))
NormalizeName ==
    /\ ~nameDone
    /\ nameDone' = TRUE
    /\ nameRes' = LET r == postprocess(DictWithName(nameArg)) IN
                  IF IsRaise(r) THEN r ELSE r.o[k_name]
    /\ UNCHANGED <<nameArg, reqVars, postVars, parseVars>>

NextName == NormalizeName
SpecName == InitName /\ [][NextName]_vars

(***************************************************************************)
(* SpecParse: the response parser on a JSON text J, bare or fenced         *)
(***************************************************************************)
JsonAlphabet == {"[", "]", "1", "\"", ",", " ", "\n", Backtick}
WrapModes    == {"bare", "fence", "fence_json"}

\* the reply made of J alone, of J in a fence, of J in a fence tagged json
Wrapped(J, mode) ==
    CASE mode = "bare"       -> J
      [] mode = "fence"      -> Fence \o <<"\n">> \o J \o <<"\n">> \o Fence
      [] mode = "fence_json" -> Fence \o JsonTag \o <<"\n">> \o J \o <<"\n">> \o Fence

InitParse ==
    /\ jtext \in {J \in AllSeqs(JsonAlphabet, MaxJsonLen) : ~IsRaise(JsonLoads(J))}
    /\ wrap \in WrapModes
    /\ reply = Wrapped(jtext, wrap)
    /\ parsed = None /\ parseDone = FALSE
    /\ ReqIdle /\ PostIdle /\ NameIdle

\* content = ...strip(); the fence stripping; data = json.loads(content)
ParseReply ==
    /\ ~parseDone
    /\ parseDone' = TRUE
    /\ parsed' = ResponseParser(reply)
    /\ UNCHANGED <<jtext, wrap, reply, reqVars, postVars, nameVars>>

NextParse == ParseReply
SpecParse == InitParse /\ [][NextParse]_vars

(***************************************************************************)
(* SpecPost: postprocess on a parsed reply, then on its own result         *)
(***************************************************************************)
\* the dict with the given <<key, value>> pairs, pairs of Missing left out
MkDict(pairs) ==
    LET have == {i \in 1..Len(pairs) : pairs[i][2] # Missing} IN
    Dict([k \in {pairs[i][1] : i \in have} |->
            pairs[CHOOSE i \in have : pairs[i][1] = k][2]])

k_extra == <<"n", "o", "t", "e">>

\* entries a medications_taken list is made of
MedEntries == <<
    Str(<<"x">>),
    Dict(<<>>),
    Dict((k_name :> None) @@ (k_dose :> Str(<<"5">>))),
    Dict((k_name :> Str(<<" ">>))),
    Dict((k_name :> Str(<<" ", "A", "b", " ">>)) @@ (k_dose :> Str(<<"5">>)) @@ (k_route :> None)),
    Dict((k_name :> Str(<<"b">>)) @@ (k_dose :> Str(<<>>)) @@ (k_frequency :> Num(0)) @@ (k_reason :> Bool(FALSE))),
    Dict((k_name :> Num(5))),
    Num(1),
    Dict((k_name :> Str(<<"c">>)) @@ (k_duration :> List(<<>>)) @@ (k_reason :> Str(<<"r">>)))
>>

NameVals == <<
    Missing,
    None,
    Str(<<>>),
    Str(<<" ", "\t">>),
    Str(<<"[", "A", "]", " ", "[", "B", "]">>),
    Str(<<" ", "A", "b", " ">>),
    Num(5),
    Num(0)
>>

ExtraVals == <<
    Missing,
    Num(1)
>>

AgeVals == <<
    Missing,
    Num(3)
>>

IllnessVals == <<
    Missing,
    None,
    List(<<>>),
    List(<<Str(<<" ", "a", "b", " ">>), Str(<<" ">>), Str(<<>>)>>),
    List(<<Num(5)>>),
    List(<<Str(<<"x">>), None>>),
    Str(<<"a", "b">>),
    Num(3)
>>

HistoryVals == <<
    Missing,
    Str(<<" ", " ", "a", " ", " ", " ", "b", "\t", "c", " ">>),
    Num(7),
    Str(<<>>)
>>

DiagnosisVals == <<
    Missing,
    List(<<Dict((k_label :> Str(<<"d", "e", "p", "r", "e", "s", "s", "i", "o", "n">>)) @@ (k_code :> Str(<<"F", "3", "2", ".", "1">>)))>>),
    List(<<Str(<<"x">>), Dict((k_code :> Str(<<"c">>))), Dict((k_label :> Str(<<" ">>)) @@ (k_priority :> Str(<<"h", "i", "g", "h">>)))>>),
    List(<<Dict((k_label :> Num(1)))>>),
    List(<<Dict((k_label :> Str(<<" ", "a", "n", "x", " ">>)) @@ (k_code :> Str(<<>>)) @@ (k_priority :> Str(<<"h", "i", "g", "h">>)))>>)
>>

MedsVals == <<
    Missing,
    List(<<Dict((k_name :> Str(<<" ", "A", "b", " ">>)) @@ (k_dose :> Str(<<"5">>)) @@ (k_route :> None)), Str(<<"x">>)>>),
    List(<<Dict((k_name :> Str(<<"b">>)) @@ (k_dose :> Str(<<>>)) @@ (k_frequency :> Num(0)) @@ (k_reason :> Bool(FALSE)))>>)
>>

\* the parsed replies postprocess is applied to: every medications_taken
\* list of up to MaxEntries entries, and every combination of the field
\* values above
InitPost ==
    /\ \/ \E n \in 0..MaxEntries : \E f \in [1..n -> 1..Len(MedEntries)] :
          \E nm \in {1, 6} :
             data = MkDict(<< <<k_name, NameVals[nm]>>,
                              <<k_medications_taken, List([i \in 1..n |-> MedEntries[f[i]]])>> >>)
       \/ \E nm \in 1..Len(NameVals), ag \in 1..Len(AgeVals), ex \in 1..Len(ExtraVals),
             mi \in 1..Len(IllnessVals), md \in 1..Len(MedsVals),
             ph \in 1..Len(HistoryVals), dx \in 1..Len(DiagnosisVals) :
             data = MkDict(<< <<k_name, NameVals[nm]>>, <<k_age, AgeVals[ag]>>,
                              <<k_extra, ExtraVals[ex]>>,
                              <<k_mental_illnesses, IllnessVals[mi]>>,
                              <<k_medications_taken, MedsVals[md]>>,
                              <<k_past_history, HistoryVals[ph]>>,
                              <<k_diagnoses, DiagnosisVals[dx]>> >>)
    /\ result = None /\ again = None /\ phase = "init"
    /\ ReqIdle /\ NameIdle /\ ParseIdle

\* result = postprocess(data)
Postprocess ==
    /\ phase = "init"
    /\ result' = postprocess(data)
    /\ phase' = "once"
    /\ UNCHANGED <<data, again, reqVars, nameVars, parseVars>>

\* postprocess(result), when the first application returned
PostprocessAgain ==
    /\ phase = "once" /\ ~IsRaise(result)
    /\ again' = postprocess(result)
    /\ phase' = "twice"
    /\ UNCHANGED <<data, result, reqVars, nameVars, parseVars>>

NextPost == Postprocess \/ PostprocessAgain
SpecPost == InitPost /\ [][NextPost]_vars

(***************************************************************************)
(* Spec: one POST /extract request                                         *)
(***************************************************************************)
\* length of the content sample in the invalid-JSON detail
SampleLen == 800

FileNames == <<
    None,
    Str(<<"a", ".", "p", "d", "f">>),
    Str(<<"A", ".", "P", "D", "F">>),
    Str(<<"a", ".", "d", "o", "c", "x">>),
    Str(<<"a", ".", "t", "x", "t">>),
    Str(<<"p", "d", "f">>)
>>
ContentTypes == <<
    None,
    Str(<<"a", "p", "p", "l", "i", "c", "a", "t", "i", "o", "n", "/", "p", "d", "f">>),
    Str(<<"A", "p", "p", "l", "i", "c", "a", "t", "i", "o", "n", "/", "P", "D", "F">>),
    Str(<<"t", "e", "x", "t", "/", "p", "l", "a", "i", "n">>),
    Str(<<"a", "p", "p", "l", "i", "c", "a", "t", "i", "o", "n", "/", "v", "n", "d", ".", "o", "p", "e", "n", "x", "m", "l", "f", "o", "r", "m", "a", "t", "s", "-", "o", "f", "f", "i", "c", "e", "d", "o", "c", "u", "m", "e", "n", "t", ".", "w", "o", "r", "d", "p", "r", "o", "c", "e", "s", "s", "i", "n", "g", "m", "l", ".", "d", "o", "c", "u", "m", "e", "n", "t">>)
>>
\* bytes of an upload: space, A, and a byte that no UTF-8 text contains
Bytes == {32, 65, 255}

PdfSuffix  == <<".", "p", "d", "f">>
DocxSuffix == <<".", "d", "o", "c", "x">>
PdfWord    == <<"p", "d", "f">>
WordMime   == <<"o", "f", "f", "i", "c", "e", "d", "o", "c", "u", "m", "e", "n", "t", ".", "w", "o", "r", "d", "p", "r", "o", "c", "e", "s", "s", "i", "n", "g", "m", "l", ".", "d", "o", "c", "u", "m", "e", "n", "t">>

\* the dispatch with the word-document test first
ReaderFor_DocxFirst(fname, ct) ==
    LET name == Lower(Or(fname, Str(<<>>)).s)
        c    == Lower(Or(ct, Str(<<>>)).s)
    IN  IF EndsWith(name, DocxSuffix) \/ Contains(c, WordMime) THEN "docx"
        ELSE IF EndsWith(name, PdfSuffix) \/ Contains(c, PdfWord) THEN "pdf"
        ELSE "txt"

\* the reader extract_text_from_upload hands raw to
ReaderFor(fname, ct) ==
    LET name == Lower(Or(fname, Str(<<>>)).s)
        c    == Lower(Or(ct, Str(<<>>)).s)
    IN  IF EndsWith(name, PdfSuffix) \/ Contains(c, PdfWord) THEN "pdf"
        ELSE IF EndsWith(name, DocxSuffix) \/ Contains(c, WordMime) THEN "docx"
        ELSE "txt"

\* sep.join(parts)
RECURSIVE Join(_, _)
Join(sep, parts) ==
    IF parts = <<>> THEN <<>>
    ELSE IF Len(parts) = 1 THEN parts[1]
    ELSE parts[1] \o sep \o Join(sep, Tail(parts))

\* the character a byte below 128 decodes to
CharOfByte(b) == CASE b = 32 -> " " [] b = 65 -> "A" [] OTHER -> "?"
\* raw.decode("utf-8", errors="ignore") for raw over Bytes
RECURSIVE read_txt(_)
read_txt(r) ==
    IF r = <<>> THEN <<>>
    ELSE IF Head(r) < 128 THEN <<CharOfByte(Head(r))>> \o read_txt(Tail(r))
    ELSE read_txt(Tail(r))

\* what PdfReader finds in an upload: it raises, or gives the pages, each
\* with the value of extract_text()
PdfDocuments == <<
    Raise("PdfReadError"),
    List(<<>>),
    List(<<None>>),
    List(<<Str(<<"n", "o", "t", "e">>), None>>),
    List(<<Str(<<" ">>), Str(<<>>)>>)
>>
\* _read_pdf on such a document
read_pdf(doc) ==
    IF IsRaise(doc) THEN doc
    ELSE Str(Join(<<"\n">>, [i \in 1..Len(doc.l) |-> Or(doc.l[i], Str(<<>>)).s]))

\* what Document finds in an upload: it raises, or gives the paragraph texts
DocxDocuments == <<
    Raise("PackageNotFoundError"),
    List(<<>>),
    List(<<Str(<<"n", "o", "t", "e">>), Str(<<>>)>>),
    List(<<Str(<<>>), Str(<<"\t">>)>>)
>>
\* _read_docx on such a document
read_docx(doc) ==
    IF IsRaise(doc) THEN doc
    ELSE Str(Join(<<"\n">>, [i \in 1..Len(doc.l) |-> doc.l[i].s]))

\* message.content of the replies the inference API gives
ReplyContents == <<
    None,
    Str(<<"{", "}">>),
    Str(<<"{", "\"", "n", "a", "m", "e", "\"", ":", "\"", "[", "A", "]", "\"", ",", "\"", "a", "g", "e", "\"", ":", "3", ",", "\"", "m", "e", "n", "t", "a", "l", "_", "i", "l", "l", "n", "e", "s", "s", "e", "s", "\"", ":", "[", "\"", "p", "t", "s", "d", "\"", "]", ",", "\"", "m", "e", "d", "i", "c", "a", "t", "i", "o", "n", "s", "_", "t", "a", "k", "e", "n", "\"", ":", "[", "{", "\"", "n", "a", "m", "e", "\"", ":", "\"", "B", "\"", "}", "]", ",", "\"", "p", "a", "s", "t", "_", "h", "i", "s", "t", "o", "r", "y", "\"", ":", "\"", " ", "h", " ", "\"", ",", "\"", "d", "i", "a", "g", "n", "o", "s", "e", "s", "\"", ":", "[", "]", "}">>),
    Str(<<"{", "\"", "n", "o", "t", "e", "\"", ":", "1", "}">>),
    Str(<<"[", "1", "]">>),
    Str(<<"{", "\"", "m", "e", "n", "t", "a", "l", "_", "i", "l", "l", "n", "e", "s", "s", "e", "s", "\"", ":", "[", "5", "]", "}">>),
    Str(<<"o", "o", "p", "s">>),
    Str(<<Backtick, Backtick, Backtick, "j", "s", "o", "n", "\n", "{", "\"", "a", "g", "e", "\"", ":", "3", "}", "\n", Backtick, Backtick, Backtick>>),
    Str(<<" ", " ">>)
>>
\* str(e) of the errors the inference API call raises
ApiErrors == {"APIConnectionError", "RateLimitError"}

\* the handler without the empty-upload test
UploadIsEmpty_Never(r) == FALSE
\* not raw
UploadIsEmpty(r) == r = <<>>
\* the handler without the empty-text test
TextIsEmpty_Never(t) == FALSE
\* not text
TextIsEmpty(t) == t = <<>>

EmptyUploadDetail == [msg |-> "Uploaded file is empty."]
NoTextDetail      == [msg |-> "Could not read text from the file."]
\* the response to an exception that leaves the handler uncaught
UncaughtDetail    == [msg |-> "Internal Server Error"]
InvalidJsonDetail(e, c) ==
    [prefix |-> "Model did not return valid JSON: ", e |-> e, sample |-> Take(c, SampleLen)]
ExtractionFailedDetail(e) == [prefix |-> "Extraction failed: ", e |-> e]

Init ==
    /\ pc = "start"
    /\ \E i \in 1..Len(FileNames) : filename = FileNames[i]
    /\ \E i \in 1..Len(ContentTypes) : ctype = ContentTypes[i]
    /\ raw \in AllSeqs(Bytes, MaxRaw)
    /\ readerCalls = <<>> /\ text = <<>> /\ apiCalls = 0 /\ apiFailed = FALSE
    /\ content = None /\ raisedIn = "none" /\ raisedMsg = "" /\ status = 0
    /\ detail = None /\ body = None
    /\ PostIdle /\ NameIdle /\ ParseIdle

\* the handler ends with an HTTP response
Respond(code, d, b) == pc' = "done" /\ status' = code /\ detail' = d /\ body' = b

\* raw = await file.read() up to the composition of the prompt
ReceiveUpload ==
    /\ pc = "start"
    /\ IF UploadIsEmpty(raw)
       THEN /\ Respond(400, EmptyUploadDetail, None)
            /\ UNCHANGED <<readerCalls, text, raisedIn, raisedMsg>>
       ELSE LET reader == ReaderFor(filename, ctype) IN
            /\ readerCalls' = Append(readerCalls, reader)
            /\ \E extracted \in
                    CASE reader = "pdf"  -> {read_pdf(PdfDocuments[i]) : i \in 1..Len(PdfDocuments)}
                      [] reader = "docx" -> {read_docx(DocxDocuments[i]) : i \in 1..Len(DocxDocuments)}
                      [] reader = "txt"  -> {Str(read_txt(raw))} :
                  IF IsRaise(extracted)
                  THEN \* raised outside the try block: no handler catches it
                       /\ Respond(500, UncaughtDetail, None)
                       /\ raisedIn' = "reader" /\ raisedMsg' = extracted.e
                       /\ UNCHANGED text
                  ELSE /\ text' = Strip(extracted.s)
                       /\ UNCHANGED <<raisedIn, raisedMsg>>
                       /\ IF TextIsEmpty(text')
                          THEN Respond(400, NoTextDetail, None)
                          ELSE pc' = "call" /\ UNCHANGED <<status, detail, body>>
    /\ UNCHANGED <<filename, ctype, raw, apiCalls, apiFailed, content,
                   postVars, nameVars, parseVars>>

\* client.chat.completions.create(...) is called
CallInference ==
    /\ pc = "call"
    /\ apiCalls' = apiCalls + 1
    /\ pc' = "awaiting"
    /\ UNCHANGED <<filename, ctype, raw, readerCalls, text, apiFailed, content,
                   raisedIn, raisedMsg, status, detail, body,
                   postVars, nameVars, parseVars>>

\* the call raises: except Exception
InferenceFails ==
    /\ pc = "awaiting"
    /\ \E e \in ApiErrors :
          /\ apiFailed' = TRUE
          /\ raisedIn' = "api" /\ raisedMsg' = e
          /\ Respond(500, ExtractionFailedDetail(e), None)
    /\ UNCHANGED <<filename, ctype, raw, readerCalls, text, apiCalls, content,
                   postVars, nameVars, parseVars>>

\* what the handler does with the reply content c: content.strip(), the
\* fence stripping, json.loads, postprocess and the two except clauses
HandleReply(c) ==
    IF ~IsStr(c)
    THEN \* None.strip()
         [status |-> 500, detail |-> ExtractionFailedDetail("AttributeError"), body |-> None,
          raisedIn |-> "reply", raisedMsg |-> "AttributeError"]
    ELSE LET stripped == StripFences(Strip(c.s))
             loaded   == JsonLoads(stripped)
             out      == postprocess(loaded)
         IN  IF IsRaise(loaded)
             THEN [status |-> 500, detail |-> InvalidJsonDetail(loaded.e, stripped),
                   body |-> None, raisedIn |-> "json", raisedMsg |-> loaded.e]
             ELSE IF IsRaise(out)
             THEN [status |-> 500, detail |-> ExtractionFailedDetail(out.e), body |-> None,
                   raisedIn |-> "postprocess", raisedMsg |-> out.e]
             ELSE [status |-> 200, detail |-> None, body |-> out,
                   raisedIn |-> "none", raisedMsg |-> ""]

\* HandleReply on each of the replies
ReplyOutcomes == [i \in 1..Len(ReplyContents) |-> HandleReply(ReplyContents[i])]

\* the call returns and the reply is handled
InferenceReplies ==
    /\ pc = "awaiting"
    /\ \E i \in 1..Len(ReplyContents) :
          /\ content' = ReplyContents[i]
          /\ raisedIn' = ReplyOutcomes[i].raisedIn
          /\ raisedMsg' = ReplyOutcomes[i].raisedMsg
          /\ Respond(ReplyOutcomes[i].status, ReplyOutcomes[i].detail, ReplyOutcomes[i].body)
    /\ UNCHANGED <<filename, ctype, raw, readerCalls, text, apiCalls, apiFailed,
                   postVars, nameVars, parseVars>>

Next == ReceiveUpload \/ CallInference \/ InferenceFails \/ InferenceReplies
Spec == Init /\ [][Next]_vars

(***************************************************************************)
(* C5                                                                      *)
(***************************************************************************)
\* the stretch of s from its first to its last non-whitespace character
Trimmed(s) ==
    LET ink == {i \in 1..Len(s) : s[i] \notin SpaceChars} IN
    IF ink = {} THEN <<>>
    ELSE SubSeq(s, CHOOSE i \in ink : \A j \in ink : i <= j,
                   CHOOSE i \in ink : \A j \in ink : i >= j)

\* positions i < j of s hold a bracketed token: "[", capitals only, "]"
TokenAt(s, i, j) ==
    /\ s[i] = "[" /\ s[j] = "]" /\ j > i + 1
    /\ \A k \in (i + 1)..(j - 1) : IsUpperAZ(s[k])

\* s is made of bracketed all-capital tokens and whitespace only, with at
\* least one token
SolelyTokens(s) ==
    /\ \E i \in 1..Len(s) : s[i] = "["
    /\ \A k \in 1..Len(s) :
          \/ s[k] \in SpaceChars
          \/ \E i \in 1..k, j \in k..Len(s) : i < j /\ TokenAt(s, i, j)

\* C5: a missing, null or empty name, and a name made solely of bracketed
\* all-uppercase tokens and whitespace, normalizes to null; every other
\* string normalizes to itself with leading and trailing whitespace removed.
C5_NameRule ==
    nameDone =>
        IF nameArg.t \in {"missing", "null"} THEN nameRes = None
        ELSE IF nameArg.s = <<>> \/ SolelyTokens(nameArg.s) THEN nameRes = None
        ELSE nameRes = Str(Trimmed(nameArg.s))

\* reached: a name of two bracketed tokens with whitespace around them became null
C5_Witness ==
    /\ nameDone /\ nameArg = Str(<<"[", "A", "]", " ", "[", "A", "]">>)
    /\ nameRes = None

(***************************************************************************)
(* C7                                                                      *)
(***************************************************************************)
\* C7: a reply that is J in a triple-backtick fence, with or without the
\* json tag on the first line, parses to the value that J alone parses to.
C7_FenceTransparent ==
    parseDone /\ wrap \in {"fence", "fence_json"} => parsed = ResponseParser(jtext)

\* reached: a fenced and tagged array text was parsed to the array
C7_Witness ==
    /\ parseDone /\ wrap = "fence_json" /\ jtext = <<"[", "1", "]">>
    /\ parsed = List(<<Num(1)>>)

(***************************************************************************)
(* C3                                                                      *)
(***************************************************************************)
\* the value of field k of the parsed reply d is a list
FieldIsList(d, k) == k \in DOMAIN d.o /\ d.o[k].t = "list"
\* the value of field k of d is missing, null or a string
FieldIsTextOrAbsent(d, k) == Get(d, k).t \in {"null", "str"}

\* C3: when mental_illnesses, medications_taken and diagnoses are lists of
\* arbitrary JSON values, postprocess completes without raising.
C3_NeverRaisesOnLists ==
    /\ phase \in {"once", "twice"}
    /\ FieldIsList(data, k_mental_illnesses)
    /\ FieldIsList(data, k_medications_taken)
    /\ FieldIsList(data, k_diagnoses)
    /\ FieldIsTextOrAbsent(data, k_name)
    /\ FieldIsTextOrAbsent(data, k_past_history)
    => ~IsRaise(result)

(***************************************************************************)
(* C6                                                                      *)
(***************************************************************************)
MedsIn == Get(data, k_medications_taken)
\* m is an object whose name is a string that is not blank
Named(m) == IsDict(m) /\ Get(m, k_name).t = "str" /\ Trimmed(Get(m, k_name).s) # <<>>
\* m is an object whose name is a true value that is not a string
NameNotText(m) == IsDict(m) /\ Truthy(Get(m, k_name)) /\ Get(m, k_name).t # "str"

\* the output object for the named entry m; kept(m, k) says when the input
\* value of the optional field k is carried over
ExpectedMed(m, kept(_, _)) ==
    Dict([k \in MedKeys |->
            IF k = k_name THEN Str(Lower(Trimmed(m.o[k_name].s)))
            ELSE IF kept(m, k) THEN m.o[k] ELSE None])
ExpectedMeds(meds, kept(_, _)) ==
    LET named == SelectSeq(meds, Named) IN
    List([i \in 1..Len(named) |-> ExpectedMed(named[i], kept)])

Present(m, k)       == k \in DOMAIN m.o
PresentAndTrue(m, k) == k \in DOMAIN m.o /\ Truthy(m.o[k])

WhitespaceOnly(v) == v.t = "str" /\ v.s # <<>> /\ \A i \in 1..Len(v.s) : v.s[i] \in SpaceChars

\* C10 as stated: postprocess applied to its own result returns an equal record.
C10_Original == phase = "twice" => again = result

\* C10 amended: postprocess applied to its own result returns a record with
\* the same keys and equal in every field, except that for a whitespace-only
\* input name the first result has the empty string as name and the second
\* has null.
C10_Idempotent ==
    phase = "twice" =>
        /\ ~IsRaise(again)
        /\ DOMAIN again.o = DOMAIN result.o
        /\ \A k \in DOMAIN result.o \ {k_name} : again.o[k] = result.o[k]
        /\ IF WhitespaceOnly(Get(data, k_name))
           THEN result.o[k_name] = Str(<<>>) /\ again.o[k_name] = None
           ELSE again.o[k_name] = result.o[k_name]

\* reached: a record with a whitespace-only name and non-empty lists was
\* normalized twice
C10_Witness ==
    /\ phase = "twice" /\ WhitespaceOnly(Get(data, k_name))
    /\ result.o[k_medications_taken].l # <<>>
    /\ result.o[k_diagnoses].l # <<>>
    /\ result.o[k_mental_illnesses].l # <<>>

(***************************************************************************)
(* C1                                                                      *)
(***************************************************************************)
\* C1: a request whose upload is zero bytes long is answered with the 400
\* empty-upload error, whatever its filename and content type, and no
\* format reader and no inference call is made for it.
C1_EmptyUpload ==
    pc \in {"call", "awaiting", "done"} /\ raw = <<>> =>
        /\ status = 400 /\ detail = [msg |-> "Uploaded file is empty."]
        /\ readerCalls = <<>> /\ apiCalls = 0

\* reached: an empty upload named like a PDF was answered with the 400
C1_Witness ==
    /\ pc = "done" /\ raw = <<>> /\ filename = Str(<<"a", ".", "p", "d", "f">>)
    /\ status = 400 /\ readerCalls = <<>>

(***************************************************************************)
(* C2                                                                      *)
(***************************************************************************)
\* C2: an exception other than the three named failure kinds, raised in the
\* extraction library, the inference call, the reply handling or the
\* normalization, is answered as a 500 whose detail is "Extraction failed: "
\* followed by the exception message.
C2_CatchAll ==
    raisedIn \in {"reader", "api", "reply", "postprocess"} =>
        status = 500 /\ detail = [prefix |-> "Extraction failed: ", e |-> raisedMsg]

(***************************************************************************)
(* C4                                                                      *)
(***************************************************************************)
SchemaKeys == {k_name, k_age, k_mental_illnesses, k_medications_taken,
               k_past_history, k_diagnoses}

\* C4: the body of every 200 response has exactly the six keys of the schema.
C4_FixedSchema == status = 200 => DOMAIN body.o = SchemaKeys

(***************************************************************************)
(* C8                                                                      *)
(***************************************************************************)
\* the text of an optional header value, empty when it is not given
TextOf(v) == IF v.t = "str" THEN v.s ELSE <<>>
\* the characters of raw that are valid UTF-8, in order
ValidText(r) ==
    LET ok == SelectSeq(r, LAMBDA b : b < 128) IN [i \in 1..Len(ok) |-> CharOfByte(ok[i])]

\* C8: exactly one reader is applied to a non-empty upload: the PDF reader
\* if the lower-cased filename ends in .pdf or the lower-cased content type
\* contains pdf; otherwise the word-document reader if the filename ends in
\* .docx or the content type names the word-processing format; otherwise
\* the UTF-8 decoder that ignores undecodable bytes.
C8_ReaderChoice ==
    pc \in {"call", "awaiting", "done"} /\ raw # <<>> =>
        /\ Len(readerCalls) = 1
        /\ LET n == Lower(TextOf(filename))
               c == Lower(TextOf(ctype))
               asPdf  == EndsWith(n, PdfSuffix) \/ Contains(c, PdfWord)
               asDocx == EndsWith(n, DocxSuffix) \/ Contains(c, WordMime)
           IN  /\ asPdf => readerCalls[1] = "pdf"
               /\ ~asPdf /\ asDocx => readerCalls[1] = "docx"
               /\ ~asPdf /\ ~asDocx => readerCalls[1] = "txt"
        /\ filename = Str(<<"a", ".", "d", "o", "c", "x">>) /\ ctype = Str(<<"a", "p", "p", "l", "i", "c", "a", "t", "i", "o", "n", "/", "p", "d", "f">>) => readerCalls[1] = "pdf"
        /\ filename = None /\ ctype = None => readerCalls[1] = "txt"
        /\ readerCalls[1] = "txt" /\ raisedIn = "none" => text = Trimmed(ValidText(raw))

\* reached: an upload named a.docx and declared application/pdf was read as PDF
C8_Witness ==
    /\ pc = "call" /\ filename = Str(<<"a", ".", "d", "o", "c", "x">>) /\ ctype = Str(<<"a", "p", "p", "l", "i", "c", "a", "t", "i", "o", "n", "/", "p", "d", "f">>)
    /\ readerCalls = <<"pdf">>

(***************************************************************************)
(* C9                                                                      *)
(***************************************************************************)
\* C9: the inference API is invoked at most once per request, and only after
\* the upload and the trimmed extracted text were found non-empty; a request
\* answered with 400 never invoked it; a failed invocation is answered with
\* a 500 at once and is not followed by a second invocation.
C9_SingleCall ==
    /\ apiCalls <= 1
    /\ apiCalls >= 1 => raw # <<>> /\ Trimmed(text) # <<>> /\ Len(readerCalls) = 1
    /\ status = 400 => apiCalls = 0
    /\ apiFailed => status = 500 /\ pc = "done" /\ apiCalls = 1

\* reached: the one invocation failed and the request was answered with 500
C9_Witness ==
    /\ apiFailed /\ apiCalls = 1 /\ status = 500 /\ pc = "done"
    /\ detail = [prefix |-> "Extraction failed: ", e |-> "RateLimitError"]
====
